---- MODULE Spec2Model ----
(***************************************************************************)
(* theopencorps/endpoints: the request builder and synchronous request of  *)
(* APIEndpointBase, the futures ASyncResult / ASyncJSONObject, and the     *)
(* GithubEndpoint and TravisEndpoint clients built on them.                *)
(*                                                                         *)
(* Python values are encoded as follows.  An optional value is a sequence  *)
(* of length at most one: None is <<>> and a value v is <<v>>.  A dict is  *)
(* a function from its keys.  A decoded JSON value is a record holding    *)
(* its type tag t and its payload, under a field named after the type     *)
(* (s, n, b, d, l for str, int, bool, dict, list).  The outcome of a call *)
(* is a record                                                            *)
(* [kind |-> "return" or "raise", exc |-> exception class, val |-> value]. *)
(*                                                                         *)
(* Every record is written with its fields in the order of their first     *)
(* appearance in this module, which is the order TLC normalises records    *)
(* to: a value shared between TLC's workers is then never rearranged.      *)
(***************************************************************************)
EXTENDS Integers, Sequences, FiniteSets, TLC

VARIABLES
    self,           \* the endpoint client: class, _accept, _token
    memo,           \* the memo dict of the cache decorator on this client
    net,            \* requests handed to urlfetch during the current call
    log,            \* records logged during the current call
    call,           \* the current/last call: operation, arguments, outcome
    callerHeaders,  \* the header mapping object the caller holds (or None)
    request_args,   \* the options last built by _create_request_args
    fut,            \* the future handle held by the caller
    waits,          \* executions of rpc.get_result() on the handle's rpc
    decodes,        \* executions of json.loads on the handle's response
    sync,           \* position of a running TravisEndpoint.sync: pc, count
    history,        \* exchanges with the transport since construction
    threads         \* threads of control inside cache.__call__: pc, key

vars == <<self, memo, net, log, call, callerHeaders, request_args,
          fut, waits, decodes, sync,
          history, threads>>

-----------------------------------------------------------------------------
(* Python values *)

None == <<>>
Some(v) == <<v>>
IsNone(o) == o = <<>>
Val(o) == o[1]

\* "%s" % x for an optional string
StrOf(o) == IF IsNone(o) THEN "None" ELSE Val(o)

\* bool(x) for an optional string: None and "" are false
Truthy(o) == IF IsNone(o) THEN FALSE ELSE Val(o) # ""

\* The Python value None, among decoded and returned values
PyNone == [t |-> "null"]

\* x is None; x == y for two values (the type decides first)
IsPyNone(x) == x.t = "null"
PyEq(x, y) == x.t = y.t /\ x = y

Return(v) == [kind |-> "return", exc |-> "", val |-> v]
Raise(e) == [kind |-> "raise", exc |-> e, val |-> PyNone]
Pending == [kind |-> "pending", exc |-> "", val |-> PyNone]

\* The call returned the value v
Returned(out, v) == out.kind = "return" /\ PyEq(out.val, v)

EmptyDict == [k \in {} |-> ""]

-----------------------------------------------------------------------------
(* Module constants and class attributes *)

_MY_APP == "TheOpenCorps/1.0.0"

GithubUrl == "https://api.github.com"
GithubAccept == "application/vnd.github.v3+json"
TravisUrl == "https://api.travis-ci.org"
TravisAccept == "application/vnd.travis-ci.2+json"

Endpoint(cls) ==
    CASE cls = "GithubEndpoint" -> GithubUrl
      [] cls = "TravisEndpoint" -> TravisUrl
      [] OTHER -> ""

Accept(cls) ==
    CASE cls = "GithubEndpoint" -> GithubAccept
      [] cls = "TravisEndpoint" -> TravisAccept
      [] OTHER -> ""

-----------------------------------------------------------------------------
(* Logging: a record per logger call, level and the message's name *)

Log(level, text) == [level |-> level, text |-> text]

-----------------------------------------------------------------------------
(* APIEndpointBase *)

\* __init__: no token yet
BaseInit(cls) == [cls |-> cls, _accept |-> Accept(cls), _token |-> None]

\* token.setter: a second write is logged, then done all the same
TokenSetterLog(s) ==
    IF ~IsNone(s._token)
    THEN <<Log("error", "Token has been set multiple times"),
           Log("debug", "Before, after")>>
    ELSE <<>>

TokenSetter(s, t) == [s EXCEPT !._token = t]

\* headers[name] = value on a dict
SetItem(d, name, value) ==
    [k \in DOMAIN d \cup {name} |-> IF k = name THEN value ELSE d[k]]

\* if cond and name not in headers: headers[name] = value
AddHeaderMutant(d, cond, name, value) ==
    IF cond THEN SetItem(d, name, value) ELSE d

AddHeader(d, cond, name, value) ==
    IF cond /\ name \notin DOMAIN d THEN SetItem(d, name, value) ELSE d

\* The headers dict at the end of _create_request_args.  When the caller
\* passed a mapping, this is that same object, updated in place.
BuildHeaders(s, payload, headers) ==
    LET h0 == IF IsNone(headers) THEN EmptyDict ELSE Val(headers)
        h1 == AddHeader(h0, TRUE, "User-Agent", _MY_APP)
        h2 == AddHeader(h1, s._accept # "", "Accept", s._accept)
        h3 == AddHeader(h2, Truthy(s._token), "Authorization",
                        "token " \o StrOf(s._token))
        h4 == AddHeader(h3, ~IsNone(payload), "Content-Type",
                        "application/json")
    IN  h4

\* (at, fr, dl, vc: allow_truncated, follow_redirects, deadline,
\* validate_certificate; the deadline key is set only when one is given)
_create_request_args(s, payload, method, headers, at, fr, dl, vc) ==
    [payload |-> payload, headers |-> BuildHeaders(s, payload, headers),
     method |-> method, allow_truncated |-> at, follow_redirects |-> fr,
     validate_certificate |-> vc, deadline |-> dl]

\* The object the caller passed as headers, after the call: the dict in
\* request_args['headers'] is the caller's own dict unless None was passed.
HeadersObjectAfter(s, payload, headers) ==
    IF IsNone(headers) THEN None
    ELSE Some(BuildHeaders(s, payload, headers))

\* Defaults of the keyword arguments no caller in the package overrides
DefaultArgs(s, payload, method) ==
    _create_request_args(s, payload, method, None, FALSE, TRUE, None, None)

\* What urlfetch receives for one request
Sent(s, resource, args) ==
    [payload |-> args.payload, headers |-> args.headers,
     method |-> args.method, resource |-> resource,
     url |-> Endpoint(s.cls) \o resource]

\* A response of the transport: status code and raw body
Response(status, content) == [content |-> content, status_code |-> status]

\* APIEndpointBase.request: the log lines written for a result
RequestLog(result) ==
    IF result.status_code = 200
    THEN <<Log("info", "outcome"), Log("debug", "Sent"),
           Log("debug", "payload"), Log("debug", "Got")>>
    ELSE <<Log("warning", "outcome"), Log("info", "Sent"),
           Log("debug", "payload"), Log("info", "content")>>

\* APIEndpointBase.request: one fetch with built options; returns the result
request(s, resource, payload, method, result) ==
    [log |-> RequestLog(result), result |-> result,
     sent |-> <<Sent(s, resource, DefaultArgs(s, payload, method))>>]

-----------------------------------------------------------------------------
(* json.loads: decoded values and the bodies the transport returns *)

PyStr(x) == [t |-> "str", s |-> x]
PyInt(n) == [t |-> "int", n |-> n]
PyBool(b) == [t |-> "bool", b |-> b]
PyDict(d) == [t |-> "dict", d |-> d]
PyList(l) == [t |-> "list", l |-> l]
PyMethod(x) == [t |-> "method", m |-> x]
\* The result object urlfetch.fetch returned, as a returned value
PyResult(x) == [t |-> "result", result |-> x]

Decoded(x) == [val |-> x, ok |-> TRUE]
NotJson == [val |-> PyNone, ok |-> FALSE]

\* Bodies that are not JSON text
BadBodies == {"", "<html>"}

\* json.loads(content), on the bodies the model draws from
JsonLoads(content) ==
    CASE content \in BadBodies -> NotJson
      [] content = "null" -> Decoded(PyNone)
      [] content = "{}" -> Decoded(PyDict(EmptyDict))
      [] content = "[]" -> Decoded(PyList(<<>>))
      [] content = "\"ok\"" -> Decoded(PyStr("ok"))
      [] content = "{\"id\": 1}" -> Decoded(PyDict([id |-> PyInt(1)]))
      [] content = "[{\"id\": 1}]" ->
            Decoded(PyList(<<PyDict([id |-> PyInt(1)])>>))
      [] content = "{\"sha\": \"abc\"}" ->
            Decoded(PyDict([sha |-> PyStr("abc")]))
      [] content = "{\"sha\": \"def\"}" ->
            Decoded(PyDict([sha |-> PyStr("def")]))
      [] content = "{\"sha\": null}" -> Decoded(PyDict([sha |-> PyNone]))
      [] content = "{\"message\": \"Bad credentials\"}" ->
            Decoded(PyDict([message |-> PyStr("Bad credentials")]))
      [] content = "{\"access_token\": \"abc\"}" ->
            Decoded(PyDict([access_token |-> PyStr("abc")]))
      [] content = "{\"login\": \"octo\", \"name\": \"Octo\", \"email\": \"o@x.org\"}" ->
            Decoded(PyDict([name |-> PyStr("Octo"), login |-> PyStr("octo"),
                            email |-> PyStr("o@x.org")]))
      [] content = "{\"user\": {\"is_syncing\": true}}" ->
            Decoded(PyDict([user |-> PyDict([is_syncing |-> PyBool(TRUE)])]))
      [] content = "{\"user\": {\"is_syncing\": false}}" ->
            Decoded(PyDict([user |-> PyDict([is_syncing |-> PyBool(FALSE)])]))
      [] content = "{\"user\": {\"is_syncing\": false, \"synced_at\": \"now\"}}" ->
            Decoded(PyDict([user |-> PyDict([is_syncing |-> PyBool(FALSE),
                                             synced_at |-> PyStr("now")])]))
      [] content = "{\"user\": {}}" ->
            Decoded(PyDict([user |-> PyDict(EmptyDict)]))
      [] content = "{\"key\": \"PEM\"}" ->
            Decoded(PyDict([key |-> PyStr("PEM")]))

\* value[key] for a string key: the value, or the exception Python raises
Subscript(x, key) ==
    CASE x.t = "dict" ->
            IF key \in DOMAIN x.d THEN Return(x.d[key]) ELSE Raise("KeyError")
      [] x.t \in {"list", "str"} -> Raise("TypeError")
      [] OTHER -> Raise("TypeError")

-----------------------------------------------------------------------------
(* ASyncResult and ASyncJSONObject *)

\* A handle as request_async / request_json returns it.  fails and response
\* are what the transport will hand to rpc.get_result(): a DownloadError or
\* a result; observed counts the caller's uses of the handle.
NewFuture(cls, resource, valid_codes, fails, response) ==
    [cls |-> cls, resource |-> resource, valid_codes |-> valid_codes,
     fails |-> fails, response |-> response, _retrieved |-> FALSE,
     _result |-> PyNone, observed |-> 0]

\* One execution of a method body: its outcome, its log records, the waits
\* and decodes it performed, and the handle afterwards
Effect(out, lg, w, d, f) ==
    [log |-> lg, fut |-> f, waits |-> w, decodes |-> d, out |-> out]

\* ASyncResult.get_result
BaseGetResult(f) ==
    IF f.fails
    THEN Effect(Return(PyNone), <<Log("error", "Failed to retrieve")>>,
                1, 0, f)
    ELSE LET j == JsonLoads(f.response.content) IN
         IF ~j.ok THEN Effect(Raise("ValueError"), <<>>, 1, 1, f)
         ELSE Effect(Return(j.val),
                     IF f.response.status_code \in f.valid_codes
                     THEN <<Log("debug", "outcome"), Log("debug", "json")>>
                     ELSE <<Log("warning", "outcome"), Log("info", "json")>>,
                     1, 1, f)

\* ASyncJSONObject.get_result
JsonGetResult(f) ==
    IF f._retrieved THEN Effect(Return(PyNone), <<>>, 0, 0, f)
    ELSE LET r == BaseGetResult(f) IN
         IF r.out.kind = "raise" THEN r
         ELSE Effect(Return(PyNone), r.log, r.waits, r.decodes,
                     [f EXCEPT !._result = r.out.val, !._retrieved = TRUE])

\* len(x)
PyLen(x) ==
    CASE x.t = "dict" -> Return(PyInt(Cardinality(DOMAIN x.d)))
      [] x.t = "list" -> Return(PyInt(Len(x.l)))
      [] OTHER -> Raise("TypeError")

\* x.__nonzero__(), with the fallback of ASyncJSONObject.__nonzero__:
\* dict, list and None have no __nonzero__, so len(x) != 0 decides
ResultNonzero(x) ==
    LET n == PyLen(x) IN
    IF n.kind = "raise" THEN n ELSE Return(PyBool(n.val.n # 0))

\* x.__len__(): an attribute lookup first, which None does not pass
ResultLen(x) ==
    IF x.t \in {"dict", "list"} THEN PyLen(x) ELSE Raise("AttributeError")

\* x.__getitem__(key)
ResultGetItem(x, key) ==
    CASE x.t = "dict" ->
            IF key.t = "str" /\ key.s \in DOMAIN x.d
            THEN Return(x.d[key.s]) ELSE Raise("KeyError")
      [] x.t = "list" ->
            IF key.t # "int" THEN Raise("TypeError")
            ELSE IF key.n + 1 \in DOMAIN x.l THEN Return(x.l[key.n + 1])
            ELSE Raise("IndexError")
      [] OTHER -> Raise("AttributeError")

\* getattr(x, name), for the names the model draws from
ResultGetAttr(x, name) ==
    IF \/ x.t = "dict" /\ name \in {"keys", "get"}
       \/ x.t = "list" /\ name \in {"append", "index"}
    THEN Return(PyMethod(name))
    ELSE Raise("AttributeError")

\* A forwarding method: r is the effect of self.get_result(), used the
\* outcome of the method's use of self._result after it
Forward(r, used) ==
    IF r.out.kind = "raise" THEN r
    ELSE Effect(used, r.log, r.waits, r.decodes, r.fut)

\* self._result once self.get_result() has run on handle f
ResultOf(f) == JsonGetResult(f).fut._result

-----------------------------------------------------------------------------
(* Client construction *)

\* GithubEndpoint.__init__(token): the token as given
GithubInit(token) == TokenSetter(BaseInit("GithubEndpoint"), token)

\* TravisEndpoint.__init__(token): the token formatted between double quotes
TravisInit(token) ==
    TokenSetter(BaseInit("TravisEndpoint"), Some("\"" \o StrOf(token) \o "\""))

\* Tokens a caller constructs a client with
TokenArgs == {None, Some(""), Some("tok")}

Clients ==
    {BaseInit("APIEndpointBase")}
        \cup {GithubInit(t) : t \in TokenArgs}
        \cup {TravisInit(t) : t \in TokenArgs}

-----------------------------------------------------------------------------
(* State shared by the specifications *)

NoCall == [out |-> Pending, args |-> <<>>, op |-> ""]
Call(op, args, out) == [out |-> out, args |-> args, op |-> op]

NoFuture ==
    [cls |-> "", resource |-> "", valid_codes |-> {}, fails |-> FALSE,
     response |-> Response(0, ""), _retrieved |-> FALSE, _result |-> PyNone,
     observed |-> 0]

NoSync == [pc |-> "idle", count |-> 0]

Idle ==
    /\ memo = <<>>
    /\ net = <<>>
    /\ log = <<>>
    /\ call = NoCall
    /\ callerHeaders = None
    /\ request_args = None
    /\ fut = NoFuture
    /\ waits = 0
    /\ decodes = 0
    /\ sync = NoSync
    /\ history = <<>>
    /\ threads = <<>>

-----------------------------------------------------------------------------
(* The request builder called directly *)

CallerHeaderNames ==
    {"User-Agent", "Accept", "Authorization", "Content-Type", "X-Request-Id"}

\* Header mappings a caller passes: any subset of the names, its own values
CallerHeaders ==
    {None} \cup {Some([k \in S |-> "caller"]) : S \in SUBSET CallerHeaderNames}

Payloads == {None, Some(""), Some("{}")}

\* Keyword arguments a caller passes besides payload and headers: the
\* defaults, and every one of them overridden
Keywords ==
    {[method |-> "GET", allow_truncated |-> FALSE, follow_redirects |-> TRUE,
      validate_certificate |-> None, deadline |-> None],
     [method |-> "POST", allow_truncated |-> TRUE, follow_redirects |-> FALSE,
      validate_certificate |-> Some(TRUE), deadline |-> Some(5)]}

\* The caller takes a fresh mapping (or none) for its next requests
NewCallerHeaders ==
    /\ sync.pc = "idle"
    /\ \E h \in CallerHeaders :
        /\ callerHeaders' = h
        /\ call' = Call("headers", [headers |-> h], Return(PyNone))
    /\ request_args' = None
    /\ net' = <<>>
    /\ log' = <<>>
    /\ UNCHANGED <<self, memo, fut, waits, decodes, sync,
                   history, threads>>

\* client.token = t
SetToken ==
    /\ sync.pc = "idle"
    /\ \E t \in TokenArgs :
        /\ self' = TokenSetter(self, t)
        /\ log' = TokenSetterLog(self)
        /\ call' = Call("token.setter", [self |-> self, token |-> t],
                        Return(PyNone))
    /\ request_args' = None
    /\ net' = <<>>
    /\ UNCHANGED <<memo, callerHeaders, fut, waits, decodes, sync,
                   history, threads>>

\* client._create_request_args(payload=.., method=.., headers=callerHeaders, ..)
CreateRequestArgs ==
    /\ sync.pc = "idle"
    /\ \E payload \in Payloads, kw \in Keywords :
        /\ request_args' = Some(_create_request_args(
                              self, payload, kw.method, callerHeaders,
                              kw.allow_truncated, kw.follow_redirects,
                              kw.deadline, kw.validate_certificate))
        /\ callerHeaders' = HeadersObjectAfter(self, payload, callerHeaders)
        /\ call' = Call("_create_request_args",
                        [self |-> self, memo |-> memo, payload |-> payload,
                         headers |-> callerHeaders],
                        Return(PyNone))
    /\ net' = <<>>
    /\ log' = <<>>
    /\ UNCHANGED <<self, memo, fut, waits, decodes, sync,
                   history, threads>>

InitBuilder ==
    /\ self \in Clients
    /\ Idle

NextBuilder ==
    \/ NewCallerHeaders
    \/ SetToken
    \/ CreateRequestArgs

SpecBuilder == InitBuilder /\ [][NextBuilder]_vars

\* The build under observation: its inputs and its result
Built == call.op = "_create_request_args"
InHeaders ==
    IF IsNone(call.args.headers) THEN EmptyDict ELSE Val(call.args.headers)
OutHeaders == Val(request_args).headers

\* What the builder adds for each header it manages, and when
Configured(name) ==
    CASE name = "User-Agent" -> TRUE
      [] name = "Accept" -> call.args.self._accept # ""
      [] name = "Authorization" -> Truthy(call.args.self._token)
      [] name = "Content-Type" -> ~IsNone(call.args.payload)

Added(name) ==
    CASE name = "User-Agent" -> _MY_APP
      [] name = "Accept" -> call.args.self._accept
      [] name = "Authorization" -> "token " \o Val(call.args.self._token)
      [] name = "Content-Type" -> "application/json"

ManagedHeaders == {"User-Agent", "Accept", "Authorization", "Content-Type"}

\* C9: the built options always carry a User-Agent; Accept, Authorization
\* ("token <token>") and Content-Type (application/json) are present exactly
\* when the caller supplied them or, respectively, an accept type is
\* configured, a (non-empty) token is configured, a payload is present; a
\* header the caller supplied keeps the caller's value, and nothing else is
\* added.
C9_BuiltHeaders ==
    Built =>
        /\ "User-Agent" \in DOMAIN OutHeaders
        /\ DOMAIN OutHeaders \subseteq DOMAIN InHeaders \cup ManagedHeaders
        /\ \A h \in DOMAIN InHeaders :
            h \in DOMAIN OutHeaders /\ OutHeaders[h] = InHeaders[h]
        /\ \A h \in ManagedHeaders \ DOMAIN InHeaders :
            /\ h \in DOMAIN OutHeaders <=> Configured(h)
            /\ h \in DOMAIN OutHeaders => OutHeaders[h] = Added(h)

\* C9 witness: a build with a token, an accept type and a payload in which
\* the caller supplied Authorization itself and left Content-Type out
C9_Witness ==
    /\ Built
    /\ Truthy(call.args.self._token)
    /\ call.args.self._accept # ""
    /\ ~IsNone(call.args.payload)
    /\ DOMAIN InHeaders = {"Authorization"}
    /\ OutHeaders["Authorization"] = "caller"
    /\ OutHeaders["Content-Type"] = "application/json"

\* C10: building request options sends nothing, leaves the client (token,
\* caches) unchanged and leaves the mapping the caller passed unchanged.
C10_BuildIsPure ==
    Built =>
        /\ net = <<>>
        /\ self = call.args.self
        /\ memo = call.args.memo
        /\ callerHeaders = call.args.headers

-----------------------------------------------------------------------------
(* The deferred client and the caller's uses of the handle *)

MaxObs == 3

FutureBodies == BadBodies \cup {"null", "{}", "[]", "{\"id\": 1}", "[{\"id\": 1}]"}
FutureStatuses == {200, 404}
FutureResources == {"/repos/octo/demo", "/hooks"}
ValidCodes == {{200}, {200, 404}}
\* Keys the caller indexes with (string keys and a list index)
Keys == <<PyStr("id"), PyStr("name"), PyInt(0)>>
AttrNames == {"keys", "append", "status_code"}

\* What the transport holds for a request: a DownloadError or a result
Transport ==
    {[fails |-> TRUE, response |-> Response(0, "")]}
        \cup {[fails |-> FALSE, response |-> Response(st, b)] :
                st \in FutureStatuses, b \in FutureBodies}

\* make_fetch_call: the request goes out when the handle is created
Issue(handle, resource) ==
    /\ fut' = handle
    /\ net' = <<Sent(self, resource, DefaultArgs(self, None, "GET"))>>
    /\ log' = <<>>
    /\ waits' = 0
    /\ decodes' = 0
    /\ call' = Call("request", [resource |-> resource], Return(PyNone))
    /\ request_args' = Some(DefaultArgs(self, None, "GET"))
    /\ UNCHANGED <<self, memo, callerHeaders, sync,
                   history, threads>>

\* APIEndpointBase.request_async(resource): valid_codes keeps its default
RequestAsync ==
    \E resource \in FutureResources, tr \in Transport :
        Issue(NewFuture("ASyncResult", resource, {200},
                        tr.fails, tr.response), resource)

\* APIEndpointBase.request_json(resource, valid_codes)
RequestJson ==
    \E resource \in FutureResources, vc \in ValidCodes, tr \in Transport :
        Issue(NewFuture("ASyncJSONObject", resource, vc,
                        tr.fails, tr.response), resource)

\* One use of the handle by the caller, with effect e
Observe(op, args, e) ==
    /\ fut.observed < MaxObs
    /\ fut' = [e.fut EXCEPT !.observed = fut.observed + 1]
    /\ waits' = waits + e.waits
    /\ decodes' = decodes + e.decodes
    /\ log' = e.log
    /\ call' = Call(op, args, e.out)
    /\ net' = <<>>
    /\ UNCHANGED <<self, memo, callerHeaders, request_args, sync,
                   history, threads>>

\* handle.get_result()
GetResult ==
    /\ fut.cls \in {"ASyncResult", "ASyncJSONObject"}
    /\ Observe("get_result", <<>>,
               IF fut.cls = "ASyncResult" THEN BaseGetResult(fut)
               ELSE JsonGetResult(fut))

\* handle.__nonzero__()
Nonzero ==
    /\ fut.cls = "ASyncJSONObject"
    /\ Observe("__nonzero__", <<>>, Forward(JsonGetResult(fut), ResultNonzero(ResultOf(fut))))

\* handle.__len__()
LenOf ==
    /\ fut.cls = "ASyncJSONObject"
    /\ Observe("__len__", <<>>, Forward(JsonGetResult(fut), ResultLen(ResultOf(fut))))

\* handle.__getitem__(key)
GetItem ==
    /\ fut.cls = "ASyncJSONObject"
    /\ \E i \in DOMAIN Keys :
        Observe("__getitem__", [key |-> Keys[i]],
                Forward(JsonGetResult(fut),
                        ResultGetItem(ResultOf(fut), Keys[i])))

\* handle.__getattr__(name)
GetAttr ==
    /\ fut.cls = "ASyncJSONObject"
    /\ \E name \in AttrNames :
        Observe("__getattr__", [name |-> name],
                Forward(JsonGetResult(fut),
                        ResultGetAttr(ResultOf(fut), name)))

InitFuture ==
    /\ self \in {GithubInit(Some("tok")), TravisInit(Some("tok"))}
    /\ Idle

NextFuture ==
    \/ RequestAsync
    \/ RequestJson
    \/ GetResult
    \/ Nonzero
    \/ LenOf
    \/ GetItem
    \/ GetAttr

SpecFuture == InitFuture /\ [][NextFuture]_vars

\* C1: once a handle whose transport delivered a response has been used at
\* least once, the transport wait and the JSON decode have each executed
\* exactly once, however often and however it was used.
C1_ExactlyOnce ==
    (fut.cls # "" /\ ~fut.fails /\ fut.observed >= 1) =>
        (waits = 1 /\ decodes = 1)

\* C8: when the transport wait fails with a download error, no use of the
\* handle raises; the wait logs an error and the result is None.
C8_FailureNeverRaises ==
    (fut.cls # "" /\ fut.fails /\ fut.observed >= 1) =>
        /\ call.out.kind = "return"
        /\ IsPyNone(fut._result)
        /\ log # <<>> => log[1].level = "error"

-----------------------------------------------------------------------------
(* base64 *)

B64Alphabet ==
    <<"A", "B", "C", "D", "E", "F", "G", "H", "I", "J", "K", "L", "M",
      "N", "O", "P", "Q", "R", "S", "T", "U", "V", "W", "X", "Y", "Z",
      "a", "b", "c", "d", "e", "f", "g", "h", "i", "j", "k", "l", "m",
      "n", "o", "p", "q", "r", "s", "t", "u", "v", "w", "x", "y", "z",
      "0", "1", "2", "3", "4", "5", "6", "7", "8", "9", "+", "/">>

B64Char(n) == B64Alphabet[n + 1]

\* base64.b64encode of a byte string, given as a sequence of byte values
RECURSIVE B64Encode(_)
B64Encode(bytes) ==
    CASE Len(bytes) = 0 -> ""
      [] Len(bytes) = 1 ->
            B64Char(bytes[1] \div 4) \o B64Char((bytes[1] % 4) * 16) \o "=="
      [] Len(bytes) = 2 ->
            LET n == (bytes[1] * 256 + bytes[2]) * 4 IN
            B64Char(n \div 4096) \o B64Char((n \div 64) % 64)
                \o B64Char(n % 64) \o "="
      [] OTHER ->
            LET n == bytes[1] * 65536 + bytes[2] * 256 + bytes[3] IN
            B64Char(n \div 262144) \o B64Char((n \div 4096) % 64)
                \o B64Char((n \div 64) % 64) \o B64Char(n % 64)
                \o B64Encode(SubSeq(bytes, 4, Len(bytes)))

-----------------------------------------------------------------------------
(* TravisEndpoint *)

\* json.dumps(x): the JSON document of x, as sent in a payload
JsonDumps(x) == [json |-> x]

\* str(x) of a decoded value
PyToStr(x) ==
    CASE x.t = "str" -> x.s
      [] x.t = "null" -> "None"
      [] x.t = "int" -> ToString(x.n)

\* The effect of a piece of a method: the client afterwards, the requests
\* sent, the records logged, and how it ended
Step(s, sent, lg, out) == [self |-> s, log |-> lg, out |-> out, sent |-> sent]

\* TravisEndpoint.login; resp answers the POST if one is sent
login(s, resp) ==
    IF ~IsNone(s._token)
    THEN Step(s, <<>>, <<Log("info", "Already logged into Travis")>>,
              Return(PyNone))
    ELSE LET r == request(s, "/auth/github",
                          Some(JsonDumps(PyDict([github_token |-> PyNone]))),
                          "POST", resp)
             j == JsonLoads(resp.content)
             tok == IF j.ok THEN Subscript(j.val, "access_token")
                    ELSE Raise("ValueError")
         IN  IF tok.kind = "raise" THEN Step(s, r.sent, r.log, tok)
             ELSE Step(TokenSetter(s, Some(PyToStr(tok.val))), r.sent,
                       r.log \o <<Log("info", "Logged in to Travis")>>,
                       Return(PyNone))

\* auth._wrapper(*args): a keyword argument is refused by the wrapper's
\* signature; without a token, login runs before the method
auth(s, keywords, resp) ==
    IF keywords THEN Step(s, <<>>, <<>>, Raise("TypeError"))
    ELSE IF IsNone(s._token) THEN login(s, resp)
    ELSE Step(s, <<>>, <<>>, Return(PyNone))

\* A gated method: the gate g, then the effect b of the method body on the
\* client the gate left
Gated(g, b) ==
    IF g.out.kind = "raise" THEN g
    ELSE Step(b.self, g.sent \o b.sent, g.log \o b.log, b.out)

\* "/repos/%d/settings" % repo_id and the like
Fmt(prefix, n, suffix) == prefix \o ToString(n) \o suffix

\* TravisEndpoint.update_settings, the decorated method's body
update_settings(s, repo_id, settings, resp) ==
    LET r == request(s, Fmt("/repos/", repo_id, "/settings"),
                     Some(JsonDumps(PyDict([settings |-> PyDict(settings)]))),
                     "PATCH", resp)
    IN  Step(s, r.sent, r.log, Return(PyBool(resp.status_code = 200)))

\* TravisEndpoint.enable_hook, the decorated method's body: a variant that
\* gives up after the first PUT
enable_hook_mutant(s, hook_id, resp1, resp2) ==
    LET r1 == request(s, Fmt("/hooks/", hook_id, ""),
                      Some(JsonDumps(PyDict([hook |->
                          PyDict([active |-> PyBool(TRUE)])]))),
                      "PUT", resp1)
    IN  IF resp1.status_code = 200
        THEN Step(s, r1.sent, r1.log, Return(PyBool(TRUE)))
        ELSE Step(s, r1.sent, r1.log, Raise("HTTPException"))

\* TravisEndpoint.enable_hook, the decorated method's body
enable_hook(s, hook_id, resp1, resp2) ==
    LET r1 == request(s, Fmt("/hooks/", hook_id, ""),
                      Some(JsonDumps(PyDict([hook |->
                          PyDict([active |-> PyBool(TRUE)])]))),
                      "PUT", resp1)
        r2 == request(s, "/hooks",
                      Some(JsonDumps(PyDict([hook |->
                          PyDict([id |-> PyInt(hook_id),
                                  active |-> PyBool(TRUE)])]))),
                      "PUT", resp2)
        retry == <<Log("warning", "PUT /hooks/%d returned"),
                   Log("info", "Retrying with alternative API call")>>
    IN  IF resp1.status_code = 200
        THEN Step(s, r1.sent, r1.log, Return(PyBool(TRUE)))
        ELSE IF resp2.status_code # 200
        THEN Step(s, r1.sent \o r2.sent, r1.log \o retry \o r2.log,
                  Raise("HTTPException"))
        ELSE Step(s, r1.sent \o r2.sent, r1.log \o retry \o r2.log,
                  Return(PyBool(TRUE)))

\* The poll of sync and is_synced: GET /users/ and the user's sync flag.
\* out is Return(flag) or the exception the decoding raised.
poll_user(s, resp) ==
    LET r == request(s, "/users/", None, "GET", resp)
        j == JsonLoads(resp.content)
        user == IF j.ok THEN Subscript(j.val, "user") ELSE Raise("ValueError")
        flag == IF user.kind = "raise" THEN user
                ELSE Subscript(user.val, "is_syncing")
    IN  Step(s, r.sent, r.log, flag)

\* user['synced_at'], read for the log line of a finished sync
synced_at(resp) ==
    Subscript(Subscript(JsonLoads(resp.content).val, "user").val, "synced_at")

\* TravisEndpoint.is_synced, the decorated method's body
is_synced(s, resp) ==
    LET p == poll_user(s, resp) IN
    IF p.out.kind = "raise" THEN p
    ELSE IF ~p.out.val.b THEN Step(s, p.sent, p.log, Return(PyBool(TRUE)))
    ELSE Step(s, p.sent,
              p.log \o <<Log("info", "Still waiting for travis")>>,
              Return(PyBool(FALSE)))

\* The handle a deferred request returns to its caller
PyHandle(cls) == [t |-> "handle", cls |-> cls]

\* APIEndpointBase.request_json(resource) on a client: the GET goes out
\* when the handle is created, nothing is logged, the handle is returned
request_json(s, resource) ==
    Step(s, <<Sent(s, resource, DefaultArgs(s, None, "GET"))>>, <<>>,
         Return(PyHandle("ASyncJSONObject")))

\* TravisEndpoint.get_repo
get_repo(s, user, repo) == request_json(s, "/repos/" \o user \o "/" \o repo)

\* TravisEndpoint.get_build: repr(build_id) of an integer is its digits
get_build(s, build_id) == request_json(s, Fmt("/builds/", build_id, ""))

\* TravisEndpoint.get_job
get_job(s, job_id) == request_json(s, Fmt("/jobs/", job_id, ""))

\* TravisEndpoint.get_hooks, the decorated method's body
get_hooks(s) == request_json(s, "/hooks")

\* The wrapped function of TravisEndpoint.get_key
get_key(s, owner, repo_name, resp) ==
    LET r == request(s, "/repos/" \o owner \o "/" \o repo_name \o "/key",
                     None, "GET", resp)
        j == JsonLoads(resp.content)
    IN  Step(s, r.sent, r.log,
             IF j.ok THEN Subscript(j.val, "key") ELSE Raise("ValueError"))

\* "if args not in self.memo": a variant that recomputes on every call
cache_missMutant(m, key) == TRUE

\* "if args not in self.memo"
cache_miss(m, key) == key \notin DOMAIN m

\* The key of get_key in its cache's memo: the arguments after self, led
\* by the name of the cached operation
KeyOf(owner, repo_name) == <<"get_key", owner, repo_name>>

\* An effect together with the memo it leaves
Memoised(m, e) == [memo |-> m, step |-> e]

\* cache.__call__ around TravisEndpoint.get_key, run to its end by one
\* caller: the memoised value on a hit; on a miss the wrapped function
\* runs and its value is stored only when it returns
cached_get_key(s, m, owner, repo_name, resp) ==
    LET key == KeyOf(owner, repo_name)
        e == get_key(s, owner, repo_name, resp)
    IN  IF ~cache_miss(m, key)
        THEN Memoised(m, Step(s, <<>>, <<>>, Return(m[key])))
        ELSE IF e.out.kind = "raise" THEN Memoised(m, e)
        ELSE Memoised([k \in DOMAIN m \cup {key} |->
                          IF k = key THEN e.out.val ELSE m[k]], e)

\* A gated and cached method: the gate g, then the cached call c on the
\* client the gate left
GatedMemo(g, m, c) ==
    IF g.out.kind = "raise" THEN Memoised(m, g)
    ELSE Memoised(c.memo, Gated(g, c.step))

\* TravisEndpoint.encrypt, the decorated method's body: self.get_key goes
\* through its own gate and cache; the key it returns is a PEM string, and
\* rsa.encrypt pads at random, so the ciphertext `secure` is any one the
\* padding can give; its base64 text is returned.
encrypt(s, m, owner, repo_name, string, lresp, resp, secure) ==
    LET g == auth(s, FALSE, lresp)
        k == GatedMemo(g, m, cached_get_key(g.self, m, owner, repo_name, resp))
    IN  IF k.step.out.kind = "raise" THEN k
        ELSE Memoised(k.memo,
                      Step(k.step.self, k.step.sent, k.step.log,
                           Return(PyStr(B64Encode(secure)))))

-----------------------------------------------------------------------------
(* Calls on a TravisEndpoint *)

PollLimit == 50

LoginResponses ==
    {Response(200, "{\"access_token\": \"abc\"}"),
     Response(403, "{\"message\": \"Bad credentials\"}")}

\* The answer to the gate's login, drawn only when the gate will log in
GateResponses(s) ==
    IF IsNone(s._token) THEN LoginResponses ELSE {Response(0, "")}

RepoIds == {1, 42}
HookIds == {7}

\* Named settings passed to update_settings
SettingsArgs ==
    <<EmptyDict,
      [build_pushes |-> PyBool(TRUE)],
      [build_pushes |-> PyBool(FALSE), maximum_number_of_builds |-> PyInt(2)]>>

SettingsStatuses == {200, 404}
HookStatuses == {200, 500}
SyncStatuses == {200, 409, 500}

PollBodies ==
    {"{\"user\": {\"is_syncing\": true}}",
     "{\"user\": {\"is_syncing\": false, \"synced_at\": \"now\"}}",
     "{\"user\": {\"is_syncing\": false}}",
     "{\"user\": {}}",
     "<html>"}

KeyResponses ==
    {Response(200, "{\"key\": \"PEM\"}"), Response(404, "{}"),
     Response(502, "<html>")}

\* The answer to the key's GET, drawn only when the cache will miss
KeyAnswers(m, key) == IF key \in DOMAIN m THEN {Response(0, "")} ELSE KeyResponses

\* Ciphertexts rsa.encrypt may give for the string passed to encrypt
Ciphertexts == {<<0, 16, 131>>, <<255, 1>>}

\* What the transport will hand to a handle made by a Travis call
HandleTransport == {[fails |-> FALSE, response |-> Response(200, "[]")]}

\* A call that ran to its end with effect e
Finish(op, args, e) ==
    /\ self' = e.self
    /\ net' = e.sent
    /\ log' = e.log
    /\ call' = Call(op, args, e.out)
    /\ sync' = NoSync
    /\ UNCHANGED <<memo, callerHeaders, request_args, fut, waits, decodes,
                   history, threads>>

\* travis.login()
Login ==
    /\ sync.pc = "idle"
    /\ \E resp \in GateResponses(self) :
        Finish("login", [self |-> self, resp |-> resp], login(self, resp))

\* travis.token = t
SetTravisToken ==
    /\ sync.pc = "idle"
    /\ \E t \in TokenArgs :
        Finish("token.setter", [self |-> self, token |-> t],
               Step(TokenSetter(self, t), <<>>, TokenSetterLog(self),
                    Return(PyNone)))

\* travis.update_settings(repo_id, **settings)
UpdateSettings ==
    /\ sync.pc = "idle"
    /\ \E repo_id \in RepoIds, i \in DOMAIN SettingsArgs,
          lresp \in GateResponses(self), st \in SettingsStatuses :
        LET settings == SettingsArgs[i]
            resp == Response(st, "{}")
            gate == auth(self, DOMAIN settings # {}, lresp)
        IN  Finish("update_settings",
                   [self |-> self, resp |-> resp, repo_id |-> repo_id,
                    settings |-> settings, gate |-> gate.out],
                   Gated(gate, update_settings(gate.self, repo_id, settings,
                                               resp)))

\* travis.enable_hook(hook_id)
EnableHook ==
    /\ sync.pc = "idle"
    /\ \E hook_id \in HookIds, lresp \in GateResponses(self),
          st1 \in HookStatuses, st2 \in HookStatuses :
        LET resp1 == Response(st1, "{}")
            resp2 == Response(st2, "{}")
            gate == auth(self, FALSE, lresp)
        IN  Finish("enable_hook",
                   [self |-> self, hook_id |-> hook_id, resp1 |-> resp1,
                    resp2 |-> resp2, gate |-> gate.out],
                   Gated(gate, enable_hook(gate.self, hook_id, resp1, resp2)))

\* travis.is_synced()
IsSynced ==
    /\ sync.pc = "idle"
    /\ \E lresp \in GateResponses(self), body \in PollBodies :
        LET resp == Response(200, body)
            gate == auth(self, FALSE, lresp)
        IN  Finish("is_synced",
                   [self |-> self, resp |-> resp, gate |-> gate.out],
                   Gated(gate, is_synced(gate.self, resp)))

\* TravisEndpoint.sync up to the loop: the start request and its check
sync_start(s, resp) ==
    LET r == request(s, "/users/sync", None, "POST", resp) IN
    Step(s, r.sent, r.log,
         IF resp.status_code \notin {200, 409} THEN Raise("HTTPException")
         ELSE Return(PyNone))

\* travis.sync(block), block given positionally or (keyword) as block=..:
\* the call up to its first poll
SyncStart ==
    /\ sync.pc = "idle"
    /\ \E block \in BOOLEAN, keyword \in BOOLEAN,
          lresp \in GateResponses(self), st \in SyncStatuses :
        LET resp == Response(st, "{}")
            gate == auth(self, keyword, lresp)
            e == Gated(gate, sync_start(gate.self, resp))
            args == [self |-> self, resp |-> resp, gate |-> gate.out,
                     block |-> block, keyword |-> keyword]
        IN  IF e.out.kind = "raise" \/ ~block
            THEN Finish("sync", args, e)
            ELSE /\ self' = e.self
                 /\ net' = e.sent
                 /\ log' = e.log
                 /\ call' = Call("sync", args, Pending)
                 /\ sync' = [pc |-> "polling", count |-> 0]
                 /\ UNCHANGED <<memo, callerHeaders, request_args, fut,
                                waits, decodes, history, threads>>

\* if count > 50: raise
TimedOut(count) == count > PollLimit

\* One iteration of the loop of sync
SyncPoll ==
    /\ sync.pc = "polling"
    /\ \E body \in PollBodies :
        LET resp == Response(200, body)
            p == poll_user(self, resp)
            at == synced_at(resp)
            done(out, lg, count) ==
                /\ call' = [call EXCEPT !.out = out]
                /\ log' = log \o p.log \o lg
                /\ sync' = [pc |-> "idle", count |-> count]
        IN  /\ net' = net \o p.sent
            /\ IF p.out.kind = "raise" THEN done(p.out, <<>>, sync.count)
               ELSE IF ~p.out.val.b
               THEN IF at.kind = "raise" THEN done(at, <<>>, sync.count)
                    ELSE done(Return(PyNone), <<Log("info", "Synchronised")>>,
                              sync.count)
               ELSE IF TimedOut(sync.count + 1)
               THEN done(Raise("HTTPException"), <<>>, sync.count + 1)
               ELSE /\ sync' = [sync EXCEPT !.count = sync.count + 1]
                    /\ log' = log \o p.log
                    /\ UNCHANGED call
    /\ UNCHANGED <<self, memo, callerHeaders, request_args, fut, waits,
                   decodes, history, threads>>

\* A call of a cached method that ran to its end with effect c.step and
\* left the memo c.memo
FinishMemo(op, args, c) ==
    /\ self' = c.step.self
    /\ memo' = c.memo
    /\ net' = c.step.sent
    /\ log' = c.step.log
    /\ call' = Call(op, args, c.step.out)
    /\ sync' = NoSync
    /\ UNCHANGED <<callerHeaders, request_args, fut, waits, decodes,
                   history, threads>>

\* A call of a method that ends in request_json(resource), with effect e:
\* when it returns, the caller holds a new handle, to which the transport
\* will hand tr
FinishHandle(op, args, e, resource, tr) ==
    IF e.out.kind = "raise" THEN Finish(op, args, e)
    ELSE /\ self' = e.self
         /\ net' = e.sent
         /\ log' = e.log
         /\ call' = Call(op, args, e.out)
         /\ sync' = NoSync
         /\ fut' = NewFuture("ASyncJSONObject", resource, {200},
                             tr.fails, tr.response)
         /\ waits' = 0
         /\ decodes' = 0
         /\ UNCHANGED <<memo, callerHeaders, request_args, history,
                        threads>>

\* travis.get_repo(user, repo)
GetRepo ==
    /\ sync.pc = "idle"
    /\ \E user \in {"octo"}, repo \in {"demo"}, tr \in HandleTransport :
        FinishHandle("get_repo", [self |-> self, user |-> user, repo |-> repo],
                     get_repo(self, user, repo),
                     "/repos/" \o user \o "/" \o repo, tr)

\* travis.get_build(build_id)
GetBuild ==
    /\ sync.pc = "idle"
    /\ \E build_id \in {11}, tr \in HandleTransport :
        FinishHandle("get_build", [self |-> self, build_id |-> build_id],
                     get_build(self, build_id),
                     Fmt("/builds/", build_id, ""), tr)

\* travis.get_job(job_id)
GetJob ==
    /\ sync.pc = "idle"
    /\ \E job_id \in {12}, tr \in HandleTransport :
        FinishHandle("get_job", [self |-> self, job_id |-> job_id],
                     get_job(self, job_id), Fmt("/jobs/", job_id, ""), tr)

\* travis.get_hooks()
GetHooks ==
    /\ sync.pc = "idle"
    /\ \E lresp \in GateResponses(self), tr \in HandleTransport :
        LET gate == auth(self, FALSE, lresp) IN
        FinishHandle("get_hooks", [self |-> self, gate |-> gate.out],
                     Gated(gate, get_hooks(gate.self)), "/hooks", tr)

\* travis.get_key(owner, repo_name)
GetKey ==
    /\ sync.pc = "idle"
    /\ \E owner \in {"octo"}, repo_name \in {"demo"},
          lresp \in GateResponses(self) :
        \E resp \in KeyAnswers(memo, KeyOf(owner, repo_name)) :
            LET gate == auth(self, FALSE, lresp) IN
            FinishMemo("get_key",
                       [self |-> self, resp |-> resp, owner |-> owner,
                        repo_name |-> repo_name, gate |-> gate.out],
                       GatedMemo(gate, memo,
                                 cached_get_key(gate.self, memo, owner,
                                                repo_name, resp)))

\* travis.encrypt(owner, repo_name, string)
Encrypt ==
    /\ sync.pc = "idle"
    /\ \E owner \in {"octo"}, repo_name \in {"demo"},
          string \in {"secret"}, lresp \in GateResponses(self), secure \in Ciphertexts :
        \E resp \in KeyAnswers(memo, KeyOf(owner, repo_name)) :
            LET gate == auth(self, FALSE, lresp) IN
            FinishMemo("encrypt",
                       [self |-> self, resp |-> resp, owner |-> owner,
                        repo_name |-> repo_name, string |-> string,
                        gate |-> gate.out],
                       GatedMemo(gate, memo,
                                 encrypt(gate.self, memo, owner, repo_name,
                                         string, Response(0, ""), resp,
                                         secure)))

InitTravis ==
    /\ self \in {TravisInit(t) : t \in TokenArgs}
    /\ Idle

NextTravis ==
    \/ Login
    \/ SetTravisToken
    \/ UpdateSettings
    \/ EnableHook
    \/ IsSynced
    \/ SyncStart
    \/ SyncPoll
    \/ GetRepo
    \/ GetBuild
    \/ GetJob
    \/ GetHooks
    \/ GetKey
    \/ Encrypt

SpecTravis == InitTravis /\ [][NextTravis]_vars

\* The requests of the current call by method or resource
Requests(method) == SelectSeq(net, LAMBDA q : q.method = method)
To(resource) == SelectSeq(net, LAMBDA q : q.resource = resource)

GatedOps ==
    {"update_settings", "sync", "is_synced", "enable_hook", "get_hooks",
     "get_key", "encrypt"}

\* The client as constructed without a token
NoTokenClient == TravisInit(None)

\* C3: on a client constructed without a token, login (called directly, or
\* by the gate of a gated method called without keyword arguments) POSTs
\* to /auth/github first and stores the access_token it returns; on a
\* client that holds a token, login sends nothing and keeps the token.
C3_LoginObtainsToken ==
    /\ (call.op = "login" /\ call.args.self = NoTokenClient) =>
        /\ Len(net) = 1
        /\ net[1].method = "POST" /\ net[1].resource = "/auth/github"
        /\ call.out.kind = "return" => self._token = Some("abc")
    /\ (call.op \in GatedOps /\ call.args.self = NoTokenClient
            /\ call.args.gate.exc # "TypeError") =>
        /\ Len(net) >= 1
        /\ net[1].method = "POST" /\ net[1].resource = "/auth/github"
    /\ (call.op = "login" /\ ~IsNone(call.args.self._token)
            /\ call.args.self # NoTokenClient) =>
        /\ net = <<>>
        /\ self = call.args.self

\* C4: update_settings(repo_id, **settings), for empty and non-empty
\* settings alike, sends exactly one PATCH to /repos/{id}/settings that
\* carries the settings, and returns whether the status was 200; it does
\* not raise.
C4_UpdateSettings ==
    (call.op = "update_settings" /\ ~IsNone(call.args.self._token)) =>
        /\ call.out.kind = "return"
        /\ Len(Requests("PATCH")) = 1
        /\ Requests("PATCH")[1].resource
             = Fmt("/repos/", call.args.repo_id, "/settings")
        /\ Requests("PATCH")[1].payload
             = Some(JsonDumps(PyDict([settings |->
                                        PyDict(call.args.settings)])))
        /\ call.out.val.t = "bool"
        /\ call.out.val.b = (call.args.resp.status_code = 200)

\* The polls of the sync in progress or just ended
Polls == Len(To("/users/"))

\* C5: a sync whose start status is neither 200 nor 409 raises before any
\* poll; a blocking sync sends at most 50 polls in total, and when it
\* raises its timeout it has sent at most 50.
C5_SyncBounded ==
    call.op = "sync" =>
        /\ (call.args.gate.kind = "return"
                /\ call.args.resp.status_code \notin {200, 409}) =>
            (call.out.kind = "raise" /\ Polls = 0)
        /\ Polls <= 50
        /\ (call.out.kind = "raise" /\ call.out.exc = "HTTPException"
                /\ Polls > 0) => Polls <= 50

\* C7: enable_hook PUTs to /hooks/{id} first; a 200 ends the call with
\* true and no further request; otherwise exactly one fallback PUT to
\* /hooks follows, the call returns true iff a PUT returned 200 and raises
\* an HTTP error iff both returned something else.
C7_EnableHook ==
    call.op = "enable_hook" =>
        LET puts == Requests("PUT")
            s1 == call.args.resp1.status_code
            s2 == call.args.resp2.status_code
            id == call.args.hook_id
        IN  IF call.args.gate.kind = "raise"
            THEN puts = <<>> /\ call.out.exc # "HTTPException"
            ELSE /\ Len(puts) >= 1
                 /\ puts[1].resource = Fmt("/hooks/", id, "")
                 /\ puts[1].payload = Some(JsonDumps(PyDict([hook |->
                        PyDict([active |-> PyBool(TRUE)])])))
                 /\ net[Len(net) - Len(puts) + 1] = puts[1]
                 /\ s1 = 200 =>
                        (Len(puts) = 1 /\ Returned(call.out, PyBool(TRUE)))
                 /\ s1 # 200 =>
                        /\ Len(puts) = 2
                        /\ puts[2].resource = "/hooks"
                        /\ puts[2].payload = Some(JsonDumps(PyDict([hook |->
                              PyDict([id |-> PyInt(id),
                                      active |-> PyBool(TRUE)])])))
                        /\ call.out.kind = "return" <=> s2 = 200
                 /\ call.out.kind = "return" => Returned(call.out, PyBool(TRUE))
                 /\ (call.out.kind = "raise" /\ call.out.exc = "HTTPException")
                        <=> (s1 # 200 /\ s2 # 200)
                 /\ call.out.kind \in {"return", "raise"}
                 /\ call.out.kind = "raise" => call.out.exc = "HTTPException"

\* C7 witness: the first PUT failed, the fallback PUT returned 200 and the
\* call returned true
C7_Witness ==
    /\ call.op = "enable_hook"
    /\ call.args.resp1.status_code = 500
    /\ call.args.resp2.status_code = 200
    /\ Len(Requests("PUT")) = 2
    /\ Returned(call.out, PyBool(TRUE))

-----------------------------------------------------------------------------
(* GithubEndpoint *)

\* The key of the user property in its cache's memo: the arguments (self,)
UserKey == <<"user">>

\* cache.__call__ around GithubEndpoint.user: GET /user and json.loads on a
\* miss, the memoised value on a hit.  out is the user value or ValueError.
user(s, m, resp) ==
    IF UserKey \in DOMAIN m
    THEN [memo |-> m, step |-> Step(s, <<>>, <<>>, Return(m[UserKey]))]
    ELSE LET r == request(s, "/user", None, "GET", resp)
             j == JsonLoads(resp.content)
         IN  IF ~j.ok
             THEN [memo |-> m, step |-> Step(s, r.sent, r.log,
                                             Raise("ValueError"))]
             ELSE [memo |-> [k \in {UserKey} |-> j.val],
                   step |-> Step(s, r.sent, r.log, Return(j.val))]

ContentsPath(owner, repo, path) ==
    "/repos/" \o owner \o "/" \o repo \o "/contents/" \o path

\* The lookup of commit_file: None on a 404, else the sha of the body
existing_sha(resp) ==
    IF resp.status_code = 404 THEN Return(PyNone)
    ELSE LET j == JsonLoads(resp.content) IN
         IF ~j.ok THEN Raise("ValueError") ELSE Subscript(j.val, "sha")

\* The last lines of commit_file: a variant that expects 200 in both cases
commit_resultMutant(sha1, status) == status = 200

\* The last lines of commit_file: created is 201, updated is 200
commit_result(sha1, status) ==
    IF IsPyNone(sha1) THEN status = 201 ELSE status = 200

\* The body of the PUT of commit_file
parameters(path, content, message, branch, committer, sha1) ==
    LET base == [content |-> PyStr(B64Encode(content)),
                 message |-> PyStr(message), path |-> PyStr(path),
                 branch |-> PyStr(branch), committer |-> PyDict(committer)]
    IN  IF ~IsPyNone(sha1) THEN SetItem(base, "sha", sha1) ELSE base

\* GithubEndpoint.commit_file; a holds the call's arguments, lookup, usr
\* and put answer the GET on the contents, GET /user (if sent) and the PUT
commit_file(s, m, a, lookup, usr, put) ==
    LET where == ContentsPath(a.user, a.repo, a.path)
        r1 == request(s, where,
                      Some(JsonDumps(PyDict([path |-> PyStr(a.path),
                                             ref |-> PyStr(a.branch)]))),
                      "GET", lookup)
        sha1 == existing_sha(lookup)
        u == user(s, m, usr)
        name == IF u.step.out.kind = "raise" THEN u.step.out
                ELSE Subscript(u.step.out.val, "name")
        email == Subscript(u.step.out.val, "email")
        r2 == request(s, where,
                      Some(JsonDumps(PyDict(parameters(
                          a.path, a.content, a.message, a.branch,
                          [name |-> name.val, email |-> email.val],
                          sha1.val)))),
                      "PUT", put)
    IN  IF sha1.kind = "raise"
        THEN [memo |-> m, step |-> Step(s, r1.sent, r1.log, sha1)]
        ELSE IF name.kind = "raise"
        THEN [memo |-> u.memo,
              step |-> Step(s, r1.sent \o u.step.sent,
                            r1.log \o u.step.log, name)]
        ELSE IF email.kind = "raise"
        THEN [memo |-> u.memo,
              step |-> Step(s, r1.sent \o u.step.sent,
                            r1.log \o u.step.log, email)]
        ELSE [memo |-> u.memo,
              step |-> Step(s, r1.sent \o u.step.sent \o r2.sent,
                            r1.log \o u.step.log \o r2.log,
                            Return(PyBool(
                                commit_result(sha1.val, put.status_code))))]

\* Statuses merge reports as done: successful, accepted, no-op
MergeMapping == {201, 202, 204}

\* GithubEndpoint.merge.  When json.loads raises, the handler's log line
\* reads content, which was never bound: UnboundLocalError leaves the call.
merge(s, a, resp) ==
    LET r == request(s, "/repos/" \o a.user \o "/" \o a.repo \o "/merges",
                     Some(JsonDumps(PyDict([base |-> PyStr(a.base),
                                            head |-> PyStr(a.sha1)]))),
                     "POST", resp)
        j == JsonLoads(resp.content)
        sha == Subscript(j.val, "sha")
        merged == <<Log("info", "Merge %s")>>
    IN  IF resp.status_code \in MergeMapping
        THEN IF ~j.ok
             THEN Step(s, r.sent, r.log \o merged, Raise("UnboundLocalError"))
             ELSE IF sha.kind = "raise"
             THEN Step(s, r.sent,
                       r.log \o merged
                             \o <<Log("error", "Unable to extract sha")>>,
                       Return(PyStr("")))
             ELSE Step(s, r.sent,
                       r.log \o merged \o <<Log("info", "Merge commit was")>>,
                       Return(sha.val))
        ELSE Step(s, r.sent,
                  r.log \o <<Log("warning",
                                 CASE resp.status_code = 409 -> "Merge conflict!"
                                   [] resp.status_code = 404 ->
                                        "Merge base or head doesn't exist!"
                                   [] OTHER -> "Unknown status")>>,
                  Raise("HTTPException"))

-----------------------------------------------------------------------------
(* Calls on a GithubEndpoint *)

LookupStatuses == {200, 404, 500}
LookupBodies ==
    {"{\"sha\": \"abc\"}", "{\"sha\": \"def\"}", "{\"sha\": null}",
     "{\"message\": \"Bad credentials\"}", "<html>"}

UserResponses ==
    {Response(200, "{\"login\": \"octo\", \"name\": \"Octo\", \"email\": \"o@x.org\"}"),
     Response(401, "{\"message\": \"Bad credentials\"}"),
     Response(502, "<html>")}

\* The answer to GET /user, drawn only when the cache will miss
UserAnswers(m) ==
    IF UserKey \in DOMAIN m THEN {Response(0, "")} ELSE UserResponses

PutStatuses == {200, 201, 422}

\* File contents a caller commits, as byte strings
Contents == {<<>>, <<104, 105, 33, 10>>}

MergeStatuses == {201, 202, 204, 404, 409, 500}
MergeBodies ==
    {"{\"sha\": \"abc\"}", "{\"sha\": null}", "{}", "[]", "null", "\"ok\"",
     "", "<html>"}

\* github.user
ReadUser ==
    \E usr \in UserAnswers(memo) :
        LET u == user(self, memo, usr) IN
        /\ memo' = u.memo
        /\ self' = u.step.self
        /\ net' = u.step.sent
        /\ log' = u.step.log
        /\ call' = Call("user", [memo |-> memo, usr |-> usr], u.step.out)
        /\ UNCHANGED <<callerHeaders, request_args, fut, waits, decodes,
                       sync, history, threads>>

\* github.commit_file(user, repo, path, content, message)
CommitFile ==
    \E content \in Contents, st \in LookupStatuses, body \in LookupBodies,
       usr \in UserAnswers(memo), pst \in PutStatuses :
        LET a == [content |-> content, message |-> "update", user |-> "octo",
                  repo |-> "demo", path |-> "README.md", branch |-> "master"]
            lookup == Response(st, body)
            put == Response(pst, "{}")
        IN  \E c \in {commit_file(self, memo, a, lookup, usr, put)} :
            /\ memo' = c.memo
            /\ self' = c.step.self
            /\ net' = c.step.sent
            /\ log' = c.step.log
            /\ call' = Call("commit_file",
                            [memo |-> memo, a |-> a, lookup |-> lookup,
                             put |-> put],
                            c.step.out)
            /\ UNCHANGED <<callerHeaders, request_args, fut, waits, decodes,
                           sync, history, threads>>

\* github.merge(user, repo, sha1)
Merge ==
    \E st \in MergeStatuses, body \in MergeBodies :
        LET a == [user |-> "octo", repo |-> "demo", sha1 |-> "abc",
                  base |-> "master"]
            resp == Response(st, body)
            e == merge(self, a, resp)
        IN  /\ self' = e.self
            /\ net' = e.sent
            /\ log' = e.log
            /\ call' = Call("merge", [resp |-> resp, a |-> a], e.out)
            /\ UNCHANGED <<memo, callerHeaders, request_args, fut, waits,
                           decodes, sync, history, threads>>

\* Resources, methods, payloads and answers of a direct client.request(..)
RequestResources == {"/user", "/repos/octo/demo"}
RequestMethods == {"GET", "POST"}
RequestPayloads == {None, Some(JsonDumps(PyDict(EmptyDict)))}
RequestStatuses == {200, 201, 202, 204, 301, 404, 500}
RequestBodies == {"", "{}"}

\* client.request(resource, method=.., payload=..)
Request ==
    \E resource \in RequestResources, method \in RequestMethods,
       payload \in RequestPayloads, st \in RequestStatuses,
       body \in RequestBodies :
        \E r \in {request(self, resource, payload, method,
                          Response(st, body))} :
            /\ net' = r.sent
            /\ log' = r.log
            /\ call' = Call("request",
                            [payload |-> payload, method |-> method,
                             resource |-> resource,
                             resp |-> Response(st, body)],
                            Return(PyResult(r.result)))
            /\ UNCHANGED <<self, memo, callerHeaders, request_args, fut,
                           waits, decodes, sync, history, threads>>

InitGithub ==
    /\ self \in {GithubInit(None), GithubInit(Some("tok"))}
    /\ Idle

NextGithub ==
    \/ ReadUser
    \/ CommitFile
    \/ Merge
    \/ Request

SpecGithub == InitGithub /\ [][NextGithub]_vars

\* C2: a merge answered 201, 202 or 204 returns without raising, whatever
\* the body: the sha of the body when it has one, else the empty string.
C2_MergeReturnsSha ==
    (call.op = "merge" /\ call.args.resp.status_code \in {201, 202, 204}) =>
        LET j == JsonLoads(call.args.resp.content)
            has == j.ok /\ j.val.t = "dict" /\ "sha" \in DOMAIN j.val.d
        IN  /\ call.out.kind = "return"
            /\ has => PyEq(call.out.val, j.val.d["sha"])
            /\ ~has => PyEq(call.out.val, PyStr(""))

\* The PUTs of the commit_file just made, and what it looked up
CommitPuts == Requests("PUT")
LookedUp == existing_sha(call.args.lookup)

\* The current user is known and carries the committer's name and email
CommitterKnown ==
    /\ UserKey \in DOMAIN memo
    /\ memo[UserKey].t = "dict"
    /\ {"name", "email"} \subseteq DOMAIN memo[UserKey].d

\* C6: commit_file looks the file up first and then, the committer being
\* known, issues exactly one PUT: after a 404 the PUT has no sha field and
\* the call returns true iff the PUT status is 201; after a lookup that
\* found sha s the PUT carries sha = s and the call returns true iff the
\* PUT status is 200.  A call that raises has sent no PUT.
C6_CommitFile ==
    call.op = "commit_file" =>
        LET where == ContentsPath(call.args.a.user, call.args.a.repo,
                                  call.args.a.path)
            pst == call.args.put.status_code
            found == call.args.lookup.status_code # 404
                        /\ LookedUp.kind = "return" /\ LookedUp.val.t = "str"
            absent == call.args.lookup.status_code = 404
        IN  /\ net[1].method = "GET" /\ net[1].resource = where
            /\ Len(CommitPuts) <= 1
            /\ Len(CommitPuts) = 1 <=> call.out.kind = "return"
            /\ ((absent \/ found) /\ CommitterKnown) => Len(CommitPuts) = 1
            /\ Len(CommitPuts) = 1 =>
                /\ net[Len(net)] = CommitPuts[1]
                /\ CommitPuts[1].resource = where
                /\ absent =>
                    /\ "sha" \notin DOMAIN CommitPuts[1].payload[1].json.d
                    /\ Returned(call.out, PyBool(pst = 201))
                /\ found =>
                    /\ "sha" \in DOMAIN CommitPuts[1].payload[1].json.d
                    /\ PyEq(CommitPuts[1].payload[1].json.d["sha"], LookedUp.val)
                    /\ Returned(call.out, PyBool(pst = 200))

\* C6 witness: one call that updated an existing file (sha abc sent, PUT
\* answered 200, true returned)
C6_Witness ==
    /\ call.op = "commit_file"
    /\ call.args.lookup = Response(200, "{\"sha\": \"abc\"}")
    /\ Len(CommitPuts) = 1
    /\ PyEq(CommitPuts[1].payload[1].json.d["sha"], PyStr("abc"))
    /\ call.args.put.status_code = 200
    /\ Returned(call.out, PyBool(TRUE))

\* C12: a direct request returns the result urlfetch handed back, unchanged,
\* and its outcome line (the first record it logs) is at info level when the
\* status is in the 2xx range and at warning level for every other status.
C12_RequestLogLevel ==
    call.op = "request" =>
        /\ call.out.kind = "return"
        /\ call.out.val.t = "result"
        /\ call.out.val.result = call.args.resp
        /\ Len(net) = 1 /\ net[1].resource = call.args.resource
        /\ log[1].text = "outcome"
        /\ log[1].level = IF call.args.resp.status_code \in 200..299
                          THEN "info" ELSE "warning"

-----------------------------------------------------------------------------
(* The current user over the client's lifetime *)

\* GithubEndpoint.get_repos; usr answers GET /user if it is sent, resp the
\* GET on the user's repositories
get_repos(s, m, usr, resp) ==
    LET u == user(s, m, usr)
        username == IF u.step.out.kind = "raise" THEN u.step.out
                    ELSE Subscript(u.step.out.val, "login")
        r == request(s, "/users/" \o PyToStr(username.val) \o "/repos",
                     None, "GET", resp)
        j == JsonLoads(resp.content)
        fetching == <<Log("info", "Fetching repos")>>
    IN  IF username.kind = "raise"
        THEN [memo |-> u.memo,
              step |-> Step(s, u.step.sent, u.step.log, username)]
        ELSE [memo |-> u.memo,
              step |-> Step(s, u.step.sent \o r.sent,
                            u.step.log \o fetching \o r.log,
                            IF j.ok THEN Return(j.val)
                            ELSE Raise("ValueError"))]

\* GithubEndpoint.fork(user, repo, organisation, block); a holds the call's
\* arguments, usr answers GET /user if it is sent, resp the POST
fork(s, m, a, usr, resp) ==
    LET u == IF a.organisation # ""
             THEN [memo |-> m, step |-> Step(s, <<>>, <<>>, Return(PyNone))]
             ELSE user(s, m, usr)
        login_ == IF a.organisation # "" THEN Return(PyStr(a.organisation))
                  ELSE IF u.step.out.kind = "raise" THEN u.step.out
                  ELSE Subscript(u.step.out.val, "login")
        payload == IF a.organisation # ""
                   THEN Some(JsonDumps(PyDict(
                            [organization |-> PyStr(a.organisation)])))
                   ELSE None
        r == request(s, "/repos/" \o a.user \o "/" \o a.repo \o "/forks",
                     payload, "POST", resp)
        j == JsonLoads(resp.content)
        forking == <<Log("info", "Forking")>>
    IN  IF ~a.block
        THEN [memo |-> m,
              step |-> Step(s, <<>>, <<>>, Raise("NotImplementedError"))]
        ELSE IF login_.kind = "raise"
        THEN [memo |-> u.memo,
              step |-> Step(s, u.step.sent, u.step.log, login_)]
        ELSE IF resp.status_code # 202
        THEN [memo |-> u.memo,
              step |-> Step(s, u.step.sent \o r.sent, u.step.log \o r.log,
                            Raise("HTTPException"))]
        ELSE [memo |-> u.memo,
              step |-> Step(s, u.step.sent \o r.sent,
                            u.step.log \o r.log \o forking,
                            IF j.ok THEN Return(j.val)
                            ELSE Raise("ValueError"))]

\* Requests a client may make between construction and the end of a run
MaxHistory == 3

ReposResponses == {Response(200, "[]"), Response(500, "<html>")}
ForkResponses == {Response(202, "{}"), Response(404, "{}")}
Organisations == {"", "corp"}
FileLookups == {Response(404, "{}"), Response(200, "{\"sha\": \"abc\"}")}

\* The requests of one call, each with the answer the transport gave it
Exchanges(sent, answers) ==
    [i \in 1..Len(sent) |-> [sent |-> sent[i], resp |-> answers[i]]]

\* The answer to GET /user when the call sends it
Miss(m, usr) == IF UserKey \in DOMAIN m THEN <<>> ELSE <<usr>>

\* One call of the client's lifetime: c is its effect, answers the transport's
\* answers in the order the call asks for them
LifetimeCall(op, args, c, answers) ==
    /\ Len(history) < MaxHistory
    /\ memo' = c.memo
    /\ self' = c.step.self
    /\ net' = c.step.sent
    /\ log' = c.step.log
    /\ call' = Call(op, args, c.step.out)
    /\ history' = history \o Exchanges(c.step.sent, answers)
    /\ UNCHANGED <<callerHeaders, request_args, fut, waits, decodes, sync,
                   threads>>

\* github.user
LifetimeUser ==
    \E usr \in UserAnswers(memo) :
        LifetimeCall("user", [memo |-> memo, usr |-> usr],
                     user(self, memo, usr), <<usr>>)

\* github.get_repos()
LifetimeGetRepos ==
    \E usr \in UserAnswers(memo), resp \in ReposResponses :
        LifetimeCall("get_repos", [memo |-> memo, resp |-> resp, usr |-> usr],
                     get_repos(self, memo, usr, resp),
                     Miss(memo, usr) \o <<resp>>)

\* github.fork(user, repo, organisation=.., block=..)
LifetimeFork ==
    \E usr \in UserAnswers(memo), resp \in ForkResponses,
       org \in Organisations, block \in BOOLEAN :
        \E a \in {[user |-> "up", repo |-> "demo", block |-> block,
                   organisation |-> org]} :
            LifetimeCall("fork", [memo |-> memo, resp |-> resp, a |-> a,
                                  usr |-> usr],
                         fork(self, memo, a, usr, resp),
                         (IF org = "" THEN Miss(memo, usr) ELSE <<>>)
                            \o <<resp>>)

\* github.commit_file(user, repo, path, content, message)
LifetimeCommitFile ==
    \E usr \in UserAnswers(memo), lookup \in FileLookups :
        \E a \in {[content |-> <<>>, message |-> "update", user |-> "octo",
                   repo |-> "demo", path |-> "README.md",
                   branch |-> "master"]} :
            LifetimeCall("commit_file",
                         [memo |-> memo, a |-> a, lookup |-> lookup,
                          usr |-> usr],
                         commit_file(self, memo, a, lookup, usr,
                                     Response(201, "{}")),
                         <<lookup>> \o Miss(memo, usr)
                            \o <<Response(201, "{}")>>)

InitUser ==
    /\ self = GithubInit(Some("tok"))
    /\ Idle

NextUser ==
    \/ LifetimeUser
    \/ LifetimeGetRepos
    \/ LifetimeFork
    \/ LifetimeCommitFile

SpecUser == InitUser /\ [][NextUser]_vars

\* The GETs of /user among the client's exchanges, by position
UserGets ==
    {i \in DOMAIN history : /\ history[i].sent.resource = "/user"
                            /\ history[i].sent.method = "GET"}

\* The first answer to GET /user, decoded
FirstUser ==
    JsonLoads(history[CHOOSE i \in UserGets :
                        \A k \in UserGets : i <= k].resp.content)

\* C11: over the lifetime of a GitHub client, whatever operations use the
\* current user, at most one GET /user is issued; a read of user returns the
\* value decoded from the first answer, and the repositories are listed for
\* the login of that first answer.
C11_UserFetchedOnce ==
    /\ Cardinality(UserGets) <= 1
    /\ (call.op = "user" /\ call.out.kind = "return") =>
            /\ FirstUser.ok
            /\ PyEq(call.out.val, FirstUser.val)
    /\ (call.op = "get_repos" /\ net # <<>>
            /\ net[Len(net)].resource # "/user") =>
            /\ FirstUser.ok
            /\ Returned(Subscript(FirstUser.val, "login"), PyStr("octo"))
            /\ net[Len(net)].resource = "/users/octo/repos"

-----------------------------------------------------------------------------
(* cache.__call__ under threads of control *)

\* The two threads of control sharing one client
Threads == {1, 2}

\* Calls of the cached operation each thread makes
MaxCalls == 2

\* The wrapped function of GithubEndpoint.user
user_func(s, resp) ==
    LET r == request(s, "/user", None, "GET", resp)
        j == JsonLoads(resp.content)
    IN  Step(s, r.sent, r.log,
             IF j.ok THEN Return(j.val) ELSE Raise("ValueError"))

\* The keys of the memo: the positional arguments after self, led by the
\* name of the cached operation
CacheKeys(s) ==
    IF s.cls = "GithubEndpoint" THEN {UserKey}
    ELSE {KeyOf("octo", "demo"), KeyOf("octo", "other")}

\* self._func(*args) for the memo key
cached_func(s, key, resp) ==
    IF key[1] = "user" THEN user_func(s, resp)
    ELSE get_key(s, key[2], key[3], resp)

\* What the transport may answer to the fetch of a cached operation
CacheAnswers(key) == IF key[1] = "user" THEN UserResponses ELSE KeyResponses

\* A thread between calls; inside a call pc is check, compute, store or
\* return, seen tells whether its check found the entry, fetched counts the
\* fetches of its current call
NoThread ==
    [val |-> PyNone, key |-> <<>>, pc |-> "idle", seen |-> FALSE,
     fetched |-> 0, calls |-> 0]

\* A thread enters cache.__call__(*args) and tests "args not in self.memo"
CacheCheck(t) ==
    /\ threads[t].pc = "idle"
    /\ threads[t].calls < MaxCalls
    /\ \E key \in CacheKeys(self) :
        threads' = [threads EXCEPT ![t] =
            [val |-> PyNone, key |-> key,
             pc |-> IF cache_miss(memo, key) THEN "compute" ELSE "return",
             seen |-> key \in DOMAIN memo, fetched |-> 0,
             calls |-> threads[t].calls + 1]]
    /\ call' = Call("cache.__call__", [thread |-> t], Pending)
    /\ net' = <<>>
    /\ log' = <<>>
    /\ UNCHANGED <<self, memo, callerHeaders, request_args, fut, waits,
                   decodes, sync, history>>

\* self._func(*args): the remote fetch and the decoding of its answer
CacheCompute(t) ==
    /\ threads[t].pc = "compute"
    /\ \E resp \in CacheAnswers(threads[t].key) :
        \E e \in {cached_func(self, threads[t].key, resp)} :
            /\ net' = e.sent
            /\ log' = e.log
            /\ history' = history \o Exchanges(e.sent, <<resp>>)
            /\ call' = Call("cache.__call__", [thread |-> t],
                            IF e.out.kind = "raise" THEN e.out ELSE Pending)
            /\ threads' = [threads EXCEPT ![t] =
                [val |-> e.out.val, key |-> threads[t].key,
                 pc |-> IF e.out.kind = "raise" THEN "idle" ELSE "store",
                 seen |-> threads[t].seen,
                 fetched |-> threads[t].fetched + 1,
                 calls |-> threads[t].calls]]
    /\ UNCHANGED <<self, memo, callerHeaders, request_args, fut, waits,
                   decodes, sync>>

\* self.memo[args] = <the computed value>
CacheStore(t) ==
    /\ threads[t].pc = "store"
    /\ memo' = [k \in DOMAIN memo \cup {threads[t].key} |->
                    IF k = threads[t].key THEN threads[t].val ELSE memo[k]]
    /\ threads' = [threads EXCEPT ![t].pc = "return"]
    /\ call' = Call("cache.__call__", [thread |-> t], Pending)
    /\ net' = <<>>
    /\ log' = <<>>
    /\ UNCHANGED <<self, callerHeaders, request_args, fut, waits, decodes,
                   sync, history>>

\* return self.memo[args]
CacheReturn(t) ==
    /\ threads[t].pc = "return"
    /\ threads' = [threads EXCEPT ![t].pc = "idle"]
    /\ call' = Call("cache.__call__", [thread |-> t],
                    Return(memo[threads[t].key]))
    /\ net' = <<>>
    /\ log' = <<>>
    /\ UNCHANGED <<self, memo, callerHeaders, request_args, fut, waits,
                   decodes, sync, history>>

InitCache ==
    /\ self \in {GithubInit(Some("tok")), TravisInit(Some("tok"))}
    /\ memo = <<>>
    /\ net = <<>>
    /\ log = <<>>
    /\ call = NoCall
    /\ callerHeaders = None
    /\ request_args = None
    /\ fut = NoFuture
    /\ waits = 0
    /\ decodes = 0
    /\ sync = NoSync
    /\ history = <<>>
    /\ threads = [t \in Threads |-> NoThread]

NextCache ==
    \E t \in Threads :
        \/ CacheCheck(t)
        \/ CacheCompute(t)
        \/ CacheStore(t)
        \/ CacheReturn(t)

SpecCache == InitCache /\ [][NextCache]_vars

\* The fetches made so far for a memo key, by position in the history
Fetches(key) ==
    {i \in DOMAIN history :
        history[i].sent.resource
            = (IF key[1] = "user" THEN "/user"
               ELSE "/repos/" \o key[2] \o "/" \o key[3] \o "/key")}

\* C13: a call whose check finds the cache entry performs no fetch and goes
\* straight to the return; a call fetches at most once, and only after its
\* own check missed; a finished call that returned gave back the entry of
\* its key.  (That two calls which both miss both fetch is the witness.)
C13_CacheRace ==
    \A t \in Threads :
        /\ threads[t].seen =>
                /\ threads[t].fetched = 0
                /\ threads[t].pc \in {"return", "idle"}
        /\ threads[t].fetched <= 1
        /\ threads[t].pc \in {"store", "return"} =>
                threads[t].seen \/ threads[t].fetched = 1
        /\ (call.op = "cache.__call__" /\ call.args.thread = t
                /\ call.out.kind = "return") =>
                /\ threads[t].key \in DOMAIN memo
                /\ PyEq(call.out.val, memo[threads[t].key])

\* C13 witness: both threads are in their first call for the same key, both
\* missed, both fetched and both computed a value, so the value was computed
\* twice; one of them has populated the entry by now
C13_Witness ==
    /\ threads[1].key = threads[2].key
    /\ threads[1].calls = 1 /\ threads[2].calls = 1
    /\ ~threads[1].seen /\ ~threads[2].seen
    /\ threads[1].fetched = 1 /\ threads[2].fetched = 1
    /\ threads[1].pc \in {"store", "return"}
    /\ threads[2].pc \in {"store", "return"}
    /\ threads[1].key \in DOMAIN memo
    /\ Cardinality(Fetches(threads[1].key)) = 2

====
